---- MODULE Spec2Model ----
(***************************************************************************)
(* The trie based HTTP router of tickit (package router): route groups,    *)
(* Build, the compiled trie, Match and the dispatch of a request through   *)
(* the middleware chain of the matched route.                              *)
(*                                                                         *)
(* A Go string is a sequence of one-character strings, so that Trim,       *)
(* Split, HasPrefix and HasSuffix are computed as the library computes     *)
(* them.                                                                   *)
(***************************************************************************)
EXTENDS Integers, Sequences, FiniteSets, TLC

VARIABLES groups, phase, routes, trie, reqs, app

vars == <<groups, phase, routes, trie, reqs, app>>

(***************************************************************************)
(* Bounds of the model.                                                    *)
(***************************************************************************)
MaxRoutes == 2

MaxGroups == 2

MaxGlobal == 2

(***************************************************************************)
(* package strings                                                         *)
(***************************************************************************)
RECURSIVE TrimLeft(_, _)
TrimLeft(s, cutset) ==
    IF s # <<>> /\ Head(s) \in cutset THEN TrimLeft(Tail(s), cutset) ELSE s

RECURSIVE TrimRight(_, _)
TrimRight(s, cutset) ==
    IF s # <<>> /\ s[Len(s)] \in cutset
    THEN TrimRight(SubSeq(s, 1, Len(s) - 1), cutset)
    ELSE s

Trim(s, cutset) == TrimLeft(TrimRight(s, cutset), cutset)

HasPrefix(s, c) == s # <<>> /\ Head(s) = c

HasSuffix(s, c) == s # <<>> /\ s[Len(s)] = c

RECURSIVE Split(_, _)
Split(s, sep) ==
    IF \E k \in 1..Len(s) : s[k] = sep
    THEN LET k == CHOOSE k \in 1..Len(s) :
                    s[k] = sep /\ \A j \in 1..(k - 1) : s[j] # sep
         IN  <<SubSeq(s, 1, k - 1)>> \o Split(SubSeq(s, k + 1, Len(s)), sep)
    ELSE <<s>>

RECURSIVE Join(_, _)
Join(elems, sep) ==
    IF elems = <<>> THEN <<>>
    ELSE IF Len(elems) = 1 THEN elems[1]
    ELSE elems[1] \o <<sep>> \o Join(Tail(elems), sep)

(***************************************************************************)
(* Pattern                                                                 *)
(***************************************************************************)
NewPattern(path) ==
    LET segments == Split(Trim(path, {"/"}), "/")
    IN  IF Len(segments) = 1 /\ segments[1] = <<>>
        THEN [segments |-> <<>>]
        ELSE [segments |-> segments]

\* the test Insert, Match and ParamNames apply to a pattern segment
IsParam(seg) == HasPrefix(seg, "{") /\ HasSuffix(seg, "}")

\* mutant of ParamNamesOf: the dots of a name are trimmed with the braces
RECURSIVE ParamNamesOf_TrimDots(_)
ParamNamesOf_TrimDots(segments) ==
    IF segments = <<>> THEN <<>>
    ELSE (IF IsParam(Head(segments))
          THEN <<Trim(Head(segments), {"{", "}", "."})>>
          ELSE <<>>) \o ParamNamesOf_TrimDots(Tail(segments))

RECURSIVE ParamNamesOf(_)
ParamNamesOf(segments) ==
    IF segments = <<>> THEN <<>>
    ELSE (IF IsParam(Head(segments))
          THEN <<Trim(Head(segments), {"{", "}"})>>
          ELSE <<>>) \o ParamNamesOf(Tail(segments))

ParamNames(p) == ParamNamesOf(p.segments)

LiteralCount(p) ==
    Cardinality({k \in 1..Len(p.segments) : ~HasPrefix(p.segments[k], "{")})

(***************************************************************************)
(* RouterGroup: the registration tree.  groups[1] is the root; a group's   *)
(* field groups lists the indexes of its children.                         *)
(***************************************************************************)
NewRouter ==
    <<[prefix |-> <<>>, middleware |-> <<>>, routes |-> <<>>, groups |-> <<>>]>>

\* mutant of FullPath: the trailing slashes of the parent's prefix are kept
FullPath_KeepTrailing(prefix, path) ==
    LET full == prefix \o <<"/">> \o TrimLeft(path, {"/"})
    IN  IF full = <<"/">> THEN <<>> ELSE full

\* prefix of a group or route: the parent's prefix and the given part
FullPath(prefix, path) ==
    LET full == TrimRight(prefix, {"/"}) \o <<"/">> \o TrimLeft(path, {"/"})
    IN  IF full = <<"/">> THEN <<>> ELSE full

RECURSIVE RouteCount(_, _)
RouteCount(gs, k) ==
    IF k = 0 THEN 0 ELSE Len(gs[k].routes) + RouteCount(gs, k - 1)

\* the handlers are told apart by the order of the Handle calls
NextHandler == RouteCount(groups, Len(groups)) + 1

Group(rg, prefix, middleware) ==
    /\ phase = "register"
    /\ Len(groups) <= MaxGroups
    /\ LET group == [prefix     |-> FullPath(groups[rg].prefix, prefix),
                     middleware |-> middleware,
                     routes     |-> <<>>,
                     groups     |-> <<>>]
           id == Len(groups) + 1
       IN  groups' = Append([groups EXCEPT ![rg].groups = Append(@, id)], group)
    /\ UNCHANGED <<phase, routes, trie, reqs, app>>

Handle(rg, method, path, middleware) ==
    /\ phase = "register"
    /\ LET fullPath == FullPath(groups[rg].prefix, path)
           pattern == NewPattern(fullPath)
           route == [Method     |-> method,
                     Path       |-> fullPath,
                     Pattern    |-> pattern,
                     Handler    |-> NextHandler,
                     Middleware |-> middleware,
                     paramNames |-> ParamNames(pattern)]
       IN  groups' = [groups EXCEPT ![rg].routes = Append(@, route)]
    /\ UNCHANGED <<phase, routes, trie, reqs, app>>

(***************************************************************************)
(* Go slices.  A slice is a window [arr, len, cap] on a backing array of   *)
(* the heap (arr = 0: the nil slice); append writes in place while the     *)
(* capacity suffices and moves to a fresh array otherwise.                 *)
(***************************************************************************)
NilSlice == [arr |-> 0, len |-> 0, cap |-> 0]

\* capacity of the array append allocates (8-byte elements, size classes)
GrowCap(oldCap, newLen) ==
    LET newcap == IF newLen > 2 * oldCap THEN newLen ELSE 2 * oldCap
    IN  IF newcap <= 4 THEN newcap ELSE 2 * ((newcap + 1) \div 2)

SliceElems(heap, s) == IF s.arr = 0 THEN <<>> ELSE SubSeq(heap[s.arr], 1, s.len)

\* append(s, elems...): the new heap and the slice returned
GoAppend(heap, s, elems) ==
    LET n == Len(elems)
    IN  IF n = 0 THEN [heap |-> heap, slice |-> s]
        ELSE IF s.len + n <= s.cap
        THEN [heap  |-> [heap EXCEPT ![s.arr] =
                            [k \in 1..s.cap |->
                                IF k > s.len /\ k <= s.len + n
                                THEN elems[k - s.len] ELSE @[k]]],
              slice |-> [s EXCEPT !.len = s.len + n]]
        ELSE LET newcap == GrowCap(s.cap, s.len + n)
                 old == SliceElems(heap, s)
                 array == [k \in 1..newcap |->
                              IF k <= s.len THEN old[k]
                              ELSE IF k <= s.len + n THEN elems[k - s.len]
                              ELSE "nil"]
             IN  [heap  |-> Append(heap, array),
                  slice |-> [arr |-> Len(heap) + 1, len |-> s.len + n,
                             cap |-> newcap]]

(***************************************************************************)
(* Build: flatten the group tree, then sort by literal count.              *)
(***************************************************************************)
RECURSIVE buildRoutes(_, _, _, _)
RECURSIVE RouteLoop(_, _, _, _)
RECURSIVE GroupLoop(_, _, _, _, _)

\* the loop over rg.routes: acc is [result, heap]
RouteLoop(rs, k, currentMiddleware, acc) ==
    IF k > Len(rs) THEN acc
    ELSE LET a == GoAppend(acc.heap, currentMiddleware, rs[k].Middleware)
             newRoute == [rs[k] EXCEPT !.Middleware = a.slice]
         IN  RouteLoop(rs, k + 1, currentMiddleware,
                       [result |-> Append(acc.result, newRoute), heap |-> a.heap])

\* the loop over rg.groups
GroupLoop(gs, children, k, currentMiddleware, acc) ==
    IF k > Len(children) THEN acc
    ELSE LET sub == buildRoutes(gs, children[k], currentMiddleware, acc.heap)
         IN  GroupLoop(gs, children, k + 1, currentMiddleware,
                       [result |-> acc.result \o sub.result, heap |-> sub.heap])

buildRoutes(gs, rg, parentMiddleware, heap) ==
    LET cur == GoAppend(heap, parentMiddleware, gs[rg].middleware)
        own == RouteLoop(gs[rg].routes, 1, cur.slice,
                         [result |-> <<>>, heap |-> cur.heap])
    IN  GroupLoop(gs, gs[rg].groups, 1, cur.slice, own)

\* the comparison handed to sort.Slice
\* mutant of Less: the route with fewer literal segments goes first
Less_Fewer(a, b) == LiteralCount(a.Pattern) < LiteralCount(b.Pattern)

\* the less function given to sort.Slice
Less(a, b) == LiteralCount(a.Pattern) > LiteralCount(b.Pattern)

\* the length up to which sort.Slice (pdqsort) sorts by insertion
maxInsertion == 12

\* insertion sort: the element at position k moves left while it is Less than
\* its left neighbour
RECURSIVE SiftLeft(_, _)
SiftLeft(rs, j) ==
    IF j > 1 /\ Less(rs[j], rs[j - 1])
    THEN SiftLeft([rs EXCEPT ![j] = rs[j - 1], ![j - 1] = rs[j]], j - 1)
    ELSE rs

RECURSIVE InsertionSort(_, _)
InsertionSort(rs, k) ==
    IF k > Len(rs) THEN rs ELSE InsertionSort(SiftLeft(rs, k), k + 1)

\* data.Swap(i, j)
Swap(rs, i, j) == [rs EXCEPT ![i] = rs[j], ![j] = rs[i]]

\* order2: the two positions in order, and whether they were exchanged
order2(rs, a, b) == IF Less(rs[b], rs[a]) THEN <<b, a, 1>> ELSE <<a, b, 0>>

\* median of the elements at three positions, with the number of exchanges
median(rs, a, b, c) ==
    LET o1 == order2(rs, a, b)
        o2 == order2(rs, o1[2], c)
        o3 == order2(rs, o1[1], o2[1])
    IN  [pivot |-> o3[2], swaps |-> o1[3] + o2[3] + o3[3]]

\* choosePivot for 8 <= Len(rs) < 50: the median of the elements at the
\* quarters (Go's positions l/4, l/4*2, l/4*3 count from 0)
choosePivot(rs) ==
    LET q == Len(rs) \div 4
    IN  median(rs, q + 1, q * 2 + 1, q * 3 + 1)

\* partialInsertionSort below 50 elements: moves nothing, and reports
\* whether the list is sorted already
partialInsertionSort(rs) ==
    \A i \in 2..Len(rs) : ~Less(rs[i], rs[i - 1])

RECURSIVE ScanUp(_, _, _)
ScanUp(rs, i, j) ==
    IF i <= j /\ Less(rs[i], rs[1]) THEN ScanUp(rs, i + 1, j) ELSE i

RECURSIVE ScanDown(_, _, _)
ScanDown(rs, i, j) ==
    IF i <= j /\ ~Less(rs[j], rs[1]) THEN ScanDown(rs, i, j - 1) ELSE j

RECURSIVE PartitionLoop(_, _, _)
PartitionLoop(rs, i, j) ==
    LET i2 == ScanUp(rs, i, j)
        j2 == ScanDown(rs, i2, j)
    IN  IF i2 > j2
        THEN [data |-> Swap(rs, j2, 1), mid |-> j2]
        ELSE PartitionLoop(Swap(rs, i2, j2), i2 + 1, j2 - 1)

\* partition: the pivot goes to the front, elements Less than it are
\* gathered on its left by exchanges from both ends, and it is put between
partition(rs, pivot) == PartitionLoop(Swap(rs, 1, pivot), 2, Len(rs))

\* pdqsort on a list of at most maxInsertion + 1 elements: beyond
\* maxInsertion one partition leaves two ranges that are sorted by insertion
pdqsort(rs) ==
    IF Len(rs) <= maxInsertion
    THEN InsertionSort(rs, 2)
    ELSE LET c == choosePivot(rs)
         IN  IF c.swaps = 0 /\ partialInsertionSort(rs)
             THEN rs
             ELSE LET p == partition(rs, c.pivot)
                  IN  InsertionSort(SubSeq(p.data, 1, p.mid - 1), 2)
                          \o <<p.data[p.mid]>>
                          \o InsertionSort(SubSeq(p.data, p.mid + 1, Len(rs)), 2)

\* sort.Slice(routes, less)
SortRoutes(rs) == pdqsort(rs)

\* the routes as ServeMux holds them: each Middleware slice read from the
\* heap as it is once buildRoutes has returned
Build(gs) ==
    LET built == buildRoutes(gs, 1, NilSlice, <<>>)
        sorted == SortRoutes(built.result)
    IN  [k \in 1..Len(sorted) |->
            [sorted[k] EXCEPT !.Middleware = SliceElems(built.heap, @)]]

(***************************************************************************)
(* Trie.  trie[1] is the root; a node's routes maps a method to the index  *)
(* in routes of the route stored there (the pointer &routes[i]).           *)
(***************************************************************************)
NewNode == [staticChildren |-> <<>>, paramChild |-> 0, routes |-> <<>>]

NewTrie == <<NewNode>>

\* m[key] = val, for a Go map held as a function
MapSet(m, key, val) ==
    [x \in (DOMAIN m) \cup {key} |-> IF x = key THEN val ELSE m[x]]

\* mutant of InsertWalk: a parameter segment always gets a fresh parameter
\* child, which takes the place of the one the node had
RECURSIVE InsertWalk_FreshParamChild(_, _, _, _, _)
InsertWalk_FreshParamChild(t, node, segs, method, ri) ==
    IF segs = <<>>
    THEN IF method \in DOMAIN t[node].routes THEN t
         ELSE [t EXCEPT ![node].routes = MapSet(@, method, ri)]
    ELSE LET seg == Head(segs)
         IN  IF IsParam(seg)
             THEN InsertWalk_FreshParamChild(
                      Append([t EXCEPT ![node].paramChild = Len(t) + 1], NewNode),
                      Len(t) + 1, Tail(segs), method, ri)
             ELSE IF seg \notin DOMAIN t[node].staticChildren
                  THEN InsertWalk_FreshParamChild(
                           Append([t EXCEPT ![node].staticChildren =
                                       MapSet(@, seg, Len(t) + 1)], NewNode),
                           Len(t) + 1, Tail(segs), method, ri)
                  ELSE InsertWalk_FreshParamChild(t, t[node].staticChildren[seg],
                                                  Tail(segs), method, ri)

RECURSIVE InsertWalk(_, _, _, _, _)
InsertWalk(t, node, segs, method, ri) ==
    IF segs = <<>>
    THEN IF method \in DOMAIN t[node].routes THEN t
         ELSE [t EXCEPT ![node].routes = MapSet(@, method, ri)]
    ELSE LET seg == Head(segs)
         IN  IF IsParam(seg)
             THEN IF t[node].paramChild = 0
                  THEN InsertWalk(Append([t EXCEPT ![node].paramChild = Len(t) + 1],
                                         NewNode),
                                  Len(t) + 1, Tail(segs), method, ri)
                  ELSE InsertWalk(t, t[node].paramChild, Tail(segs), method, ri)
             ELSE IF seg \notin DOMAIN t[node].staticChildren
                  THEN InsertWalk(Append([t EXCEPT ![node].staticChildren =
                                                MapSet(@, seg, Len(t) + 1)],
                                         NewNode),
                                  Len(t) + 1, Tail(segs), method, ri)
                  ELSE InsertWalk(t, t[node].staticChildren[seg], Tail(segs),
                                  method, ri)

Insert(t, rs, ri) == InsertWalk(t, 1, rs[ri].Pattern.segments, rs[ri].Method, ri)

RECURSIVE InsertAll(_, _, _)
InsertAll(t, rs, k) ==
    IF k > Len(rs) THEN t ELSE InsertAll(Insert(t, rs, k), rs, k + 1)

NoMatch == [route |-> 0, paramValues |-> <<>>, ok |-> FALSE]

\* mutant of StaticMatch: the parameter child is tried before the literals
StaticMatch_ParamFirst(t, node, seg) ==
    seg \in DOMAIN t[node].staticChildren /\ t[node].paramChild = 0

\* "Static match": the node has a literal child for the segment
StaticMatch(t, node, seg) == seg \in DOMAIN t[node].staticChildren

\* mutant of EndOfPath: a node without the method answers with the route of
\* another method
EndOfPath_AnyMethod(t, node, method, paramValues) ==
    IF method \in DOMAIN t[node].routes
    THEN [route |-> t[node].routes[method], paramValues |-> paramValues,
          ok |-> TRUE]
    ELSE IF DOMAIN t[node].routes # {}
    THEN [route |-> t[node].routes[CHOOSE m \in DOMAIN t[node].routes : TRUE],
          paramValues |-> paramValues, ok |-> TRUE]
    ELSE NoMatch

\* "Normal match at the end of the path"
EndOfPath(t, node, method, paramValues) ==
    IF method \in DOMAIN t[node].routes
    THEN [route |-> t[node].routes[method], paramValues |-> paramValues,
          ok |-> TRUE]
    ELSE NoMatch

\* mutant of Fallback: the route of the node where matching failed takes the
\* rest, whatever its final segment
Fallback_Prefix(t, rs, method, segments, k, node, lastParamNode, paramsSoFar) ==
    IF method \in DOMAIN t[node].routes
    THEN [route |-> t[node].routes[method],
          paramValues |-> Append(paramsSoFar,
                                 Join(SubSeq(segments, k, Len(segments)), "/")),
          ok |-> TRUE]
    ELSE NoMatch

\* mutant of Fallback: the rest starts at the segment where matching failed,
\* without the segment the parameter had already taken
Fallback_FromFailure(t, rs, method, segments, k, node, lastParamNode, paramsSoFar) ==
    IF /\ lastParamNode # 0
       /\ t[lastParamNode].paramChild # 0
       /\ method \in DOMAIN t[t[lastParamNode].paramChild].routes
    THEN LET ri == t[t[lastParamNode].paramChild].routes[method]
             psegs == rs[ri].Pattern.segments
         IN  IF Len(psegs) > 0 /\ IsParam(psegs[Len(psegs)])
             THEN [route |-> ri,
                   paramValues |-> Append(paramsSoFar,
                       Join(SubSeq(segments, k, Len(segments)), "/")),
                   ok |-> TRUE]
             ELSE NoMatch
    ELSE NoMatch

\* mutant of Fallback: the values so far are copied after the parameter child
\* has taken its segment, so that the segment is returned once more
Fallback_CopiedLate(t, rs, method, segments, k, node, lastParamNode, paramsSoFar) ==
    IF /\ lastParamNode # 0
       /\ t[lastParamNode].paramChild # 0
       /\ method \in DOMAIN t[t[lastParamNode].paramChild].routes
    THEN LET ri == t[t[lastParamNode].paramChild].routes[method]
             psegs == rs[ri].Pattern.segments
         IN  IF Len(psegs) > 0 /\ IsParam(psegs[Len(psegs)])
             THEN [route |-> ri,
                   paramValues |-> Append(Append(paramsSoFar, segments[k - 1]),
                       Join(SubSeq(segments, k - 1, Len(segments)), "/")),
                   ok |-> TRUE]
             ELSE NoMatch
    ELSE NoMatch

\* "normal matching failed" at node, with segments[k] in hand: the route at
\* the parameter child of the last node that has one takes the rest
Fallback(t, rs, method, segments, k, node, lastParamNode, paramsSoFar) ==
    IF /\ lastParamNode # 0
       /\ t[lastParamNode].paramChild # 0
       /\ method \in DOMAIN t[t[lastParamNode].paramChild].routes
    THEN LET ri == t[t[lastParamNode].paramChild].routes[method]
             psegs == rs[ri].Pattern.segments
         IN  IF Len(psegs) > 0 /\ IsParam(psegs[Len(psegs)])
             THEN LET remainingSegs == SubSeq(segments, k - 1, Len(segments))
                      remainingPath == Join(remainingSegs, "/")
                  IN  [route |-> ri,
                       paramValues |-> Append(paramsSoFar, remainingPath),
                       ok |-> TRUE]
             ELSE NoMatch
    ELSE NoMatch

\* the loop of Match; k is the 1-based position of seg, Go's i is k - 1
RECURSIVE MatchLoop(_, _, _, _, _, _, _, _, _)
MatchLoop(t, rs, method, segments, k, node, paramValues, lastParamNode, paramsSoFar) ==
    IF k > Len(segments)
    THEN EndOfPath(t, node, method, paramValues)
    ELSE LET seg == segments[k]
             hasParam == t[node].paramChild # 0
             last == IF hasParam THEN node ELSE lastParamNode
             soFar == IF hasParam THEN paramValues ELSE paramsSoFar
         IN  IF StaticMatch(t, node, seg)
             THEN MatchLoop(t, rs, method, segments, k + 1,
                            t[node].staticChildren[seg], paramValues, last, soFar)
             ELSE IF hasParam
             THEN MatchLoop(t, rs, method, segments, k + 1, t[node].paramChild,
                            Append(paramValues, seg), last, soFar)
             ELSE Fallback(t, rs, method, segments, k, node, last, soFar)

\* mutant of Match: only the leading slashes are trimmed
Match_TrimLeft(t, rs, method, path) ==
    LET normalizedPath == TrimLeft(path, {"/"})
    IN  IF normalizedPath = <<>>
        THEN EndOfPath(t, 1, method, <<>>)
        ELSE MatchLoop(t, rs, method, Split(normalizedPath, "/"), 1, 1,
                       <<>>, 0, <<>>)

\* Match: the path without its leading and trailing slashes is split at "/"
Match(t, rs, method, path) ==
    LET normalizedPath == Trim(path, {"/"})
    IN  IF normalizedPath = <<>>
        THEN EndOfPath(t, 1, method, <<>>)
        ELSE MatchLoop(t, rs, method, Split(normalizedPath, "/"), 1, 1,
                       <<>>, 0, <<>>)

\* ServeMux up to the registration of its handler: Build, then Insert of
\* every route in the order of the sorted list
ServeMux ==
    /\ phase = "register"
    /\ phase' = "serving"
    /\ routes' = Build(groups)
    /\ trie' = InsertAll(NewTrie, routes', 1)
    /\ UNCHANGED <<groups, reqs, app>>

(***************************************************************************)
(* Requests.  reqs[s] is the one request served on connection s: the       *)
(* request as sent, the Context c built for it, the request value r handed *)
(* down the chain, the position pos in the chain of the matched route, and *)
(* what has run and been written so far.                                   *)
(***************************************************************************)
Slots == {"c1", "c2"}

\* const UserIDKey contextKey = "user_id": a context key is a type and a value
UserIDKey == <<"contextKey", "user_id">>

EmptyContext == [Request |-> [Header |-> "", ctx |-> <<>>, URL |-> <<>>], Params |-> <<>>,
                 path |-> <<>>]

NoHandler == [Handler |-> 0, Params |-> <<>>, userID |-> ""]

\* the http.ResponseWriter of a request: the header map, and what has been
\* committed to the client (status code, header as it was then, body)
NewWriter == [header |-> <<>>, wroteHeader |-> FALSE, code |-> 0,
              sent |-> <<>>, body |-> <<>>]

\* no method of Context called yet
NoCall == [fn |-> "", code |-> 0, arg |-> <<>>]

Idle == [pc |-> "idle", Method |-> "", Path |-> <<>>, matched |-> 0,
         paramValues |-> <<>>, c |-> EmptyContext,
         r |-> [Header |-> "", ctx |-> <<>>, URL |-> <<>>], pos |-> 0,
         executionOrder |-> <<>>, handled |-> NoHandler,
         status |-> 0, body |-> "",
         w |-> NewWriter, log |-> <<>>, call |-> NoCall]

\* Context.Param
Param(c, key) == IF key \in DOMAIN c.Params THEN c.Params[key] ELSE <<>>

\* the loop that fills c.Params, skipped when the lengths differ
RECURSIVE Populate(_, _, _, _)
Populate(params, names, values, k) ==
    IF k > Len(names) THEN params
    ELSE Populate(MapSet(params, names[k], values[k]), names, values, k + 1)

\* mutant of NewContext: the length guard is inverted
NewContext_GuardInverted(route, paramValues, r) ==
    [Request |-> r,
     Params  |-> IF Len(route.paramNames) # Len(paramValues)
                 THEN Populate(<<>>, route.paramNames, paramValues, 1)
                 ELSE <<>>,
     path    |-> route.Path]

\* mutant of NewContext: the values are stored under the parameter names of
\* the first route of the list that has the parameters at the same positions
NewContext_SharedNames(route, paramValues, r) ==
    LET segs == route.Pattern.segments
        alike(i) == /\ Len(routes[i].Pattern.segments) = Len(segs)
                    /\ \A k \in 1..Len(segs) :
                          \/ IsParam(routes[i].Pattern.segments[k]) /\ IsParam(segs[k])
                          \/ routes[i].Pattern.segments[k] = segs[k]
        first == CHOOSE i \in 1..Len(routes) :
                     alike(i) /\ \A j \in 1..(i - 1) : ~alike(j)
    IN  [Request |-> r,
         Params  |-> IF Len(routes[first].paramNames) = Len(paramValues)
                     THEN Populate(<<>>, routes[first].paramNames, paramValues, 1)
                     ELSE <<>>,
         path    |-> route.Path]

\* the Context of a request: the request, the path of the route, and the
\* values under the parameter names of the route
NewContext(route, paramValues, r) ==
    [Request |-> r,
     Params  |-> IF Len(route.paramNames) = Len(paramValues)
                 THEN Populate(<<>>, route.paramNames, paramValues, 1)
                 ELSE <<>>,
     path    |-> route.Path]

\* auth.ValidateJWT: the user of a token, "" for a token that is refused
ValidateJWT(token) == IF token = "good" THEN "user1" ELSE ""

\* mutant of Dispatch: a request that matches no route is passed through
\* the chain of the first route before it is answered
Dispatch_ChainBeforeMatch(m, method, path, r) ==
    IF m.ok
    THEN [Idle EXCEPT !.pc = "chain", !.Method = method, !.Path = path,
                      !.matched = m.route, !.paramValues = m.paramValues,
                      !.c = NewContext(routes[m.route], m.paramValues, r),
                      !.r = r, !.pos = 1]
    ELSE IF routes # <<>>
    THEN [Idle EXCEPT !.pc = "chain", !.Method = method, !.Path = path,
                      !.matched = 1, !.r = r, !.pos = 1]
    ELSE [Idle EXCEPT !.pc = "done", !.Method = method, !.Path = path,
                      !.r = r, !.status = 404, !.body = "404 page not found"]

\* the body of the handler registered for "/": on a match the Context and
\* the chain, otherwise http.NotFound
Dispatch(m, method, path, r) ==
    IF m.ok
    THEN [Idle EXCEPT !.pc = "chain", !.Method = method, !.Path = path,
                      !.matched = m.route, !.paramValues = m.paramValues,
                      !.c = NewContext(routes[m.route], m.paramValues, r),
                      !.r = r, !.pos = 1]
    ELSE [Idle EXCEPT !.pc = "done", !.Method = method, !.Path = path,
                      !.r = r, !.status = 404, !.body = "404 page not found"]

\* the handler registered for "/": Match, then the Context and the chain
\* around route.Handler, or http.NotFound
\* mutant of ServeHTTP: one Context is shared, so that the requests in flight
\* all see the Context of the request that arrived last
ServeHTTP_SharedContext(s, method, path, authorization) ==
    /\ phase = "serving"
    /\ reqs[s].pc = "idle"
    /\ LET r == [Header |-> authorization, ctx |-> <<>>, URL |-> path]
           m == Match(trie, routes, method, path)
           mine == Dispatch(m, method, path, r)
       IN  reqs' = [t \in Slots |->
                       IF t = s THEN mine
                       ELSE IF reqs[t].pc = "chain" /\ m.ok
                       THEN [reqs[t] EXCEPT !.c = mine.c]
                       ELSE reqs[t]]
    /\ UNCHANGED <<groups, phase, routes, trie, app>>

\* one invocation of the handler registered for "/", on connection s
ServeHTTP(s, method, path, authorization) ==
    /\ phase = "serving"
    /\ reqs[s].pc = "idle"
    /\ LET r == [Header |-> authorization, ctx |-> <<>>, URL |-> path]
           m == Match(trie, routes, method, path)
       IN  reqs' = [reqs EXCEPT ![s] = Dispatch(m, method, path, r)]
    /\ UNCHANGED <<groups, phase, routes, trie, app>>

\* AuthMiddleware: what it writes, or the request it hands to next
AuthMiddleware(r) ==
    IF r.Header \notin {"Bearer good", "Bearer bad"}
    THEN [next |-> FALSE, r |-> r, status |-> 401,
          body |-> "Unauthorized: no token provided"]
    ELSE LET userID == ValidateJWT(IF r.Header = "Bearer good" THEN "good" ELSE "bad")
         IN  IF userID = ""
             THEN [next |-> FALSE, r |-> r, status |-> 401,
                   body |-> "Unauthorized: invalid token"]
             ELSE [next |-> TRUE, r |-> [r EXCEPT !.ctx = MapSet(@, UserIDKey, userID)],
                   status |-> 0, body |-> ""]

\* the pattern under which ServeMux registers its handler with net/http
MuxPattern == <<"/">>

\* r.PathValue(name): the segment that net/http matched to the wildcard
\* {name} of the pattern the handler was registered under, "" without one
PathValue(r, name) ==
    LET psegs == NewPattern(MuxPattern).segments
        segs == NewPattern(r.URL).segments
        at == {k \in 1..Len(psegs) :
                  psegs[k] = <<"{">> \o name \o <<"}">> /\ k <= Len(segs)}
    IN  IF at = {} THEN <<>> ELSE segs[CHOOSE k \in at : TRUE]

\* r.Context().Value(key): "nil" when nothing is stored under the key
Value(r, key) == IF key \in DOMAIN r.ctx THEN r.ctx[key] ELSE "nil"

\* the projects of the store and their owners
Projects == (<<"7">> :> "user1") @@ (<<"8">> :> "user2")

\* queries.GetProjectByID
GetProjectByID(id) ==
    IF id \in DOMAIN Projects
    THEN [err |-> FALSE, OwnerID |-> Projects[id]]
    ELSE [err |-> TRUE, OwnerID |-> ""]

\* the ownership middleware: what it writes, or next; the type assertion on
\* a nil value panics, and net/http drops the connection
NewOwnershipMiddleware(r) ==
    LET projectID == PathValue(r, <<"i", "d">>)
        userID == Value(r, <<"string", "user_id">>)
        project == GetProjectByID(projectID)
    IN  IF projectID = <<>>
        THEN [next |-> FALSE, r |-> r, status |-> 400, body |-> "Missing project ID"]
        ELSE IF userID = "nil"
        THEN [next |-> FALSE, r |-> r, status |-> 0, body |-> "panic"]
        ELSE IF userID = ""
        THEN [next |-> FALSE, r |-> r, status |-> 401, body |-> "Unauthorized"]
        ELSE IF project.err
        THEN [next |-> FALSE, r |-> r, status |-> 404, body |-> "Project not found"]
        ELSE IF project.OwnerID # userID
        THEN [next |-> FALSE, r |-> r, status |-> 403,
              body |-> "Forbidden: you are not the owner of this project"]
        ELSE [next |-> TRUE, r |-> r, status |-> 0, body |-> ""]

\* the middleware of the tests: "deny" writes 403 and returns, every other
\* one notes its name and calls the handler it wraps
Middleware(name, r) ==
    IF name = "auth" THEN AuthMiddleware(r)
    ELSE IF name = "owner" THEN NewOwnershipMiddleware(r)
    ELSE IF name = "deny"
    THEN [next |-> FALSE, r |-> r, status |-> 403, body |-> ""]
    ELSE [next |-> TRUE, r |-> r, status |-> 0, body |-> ""]

\* mutant of ChainAt: the chain is folded from the first middleware to the
\* last, which leaves the last one outermost
ChainAt_Reversed(route, pos) == route.Middleware[Len(route.Middleware) + 1 - pos]

\* the chain is folded from the last middleware to the first, so that the
\* wrapper at depth pos (1 the outermost) is Middleware[pos]
ChainAt(route, pos) == route.Middleware[pos]

\* mutant of RunMiddleware: the handler that a wrapper wraps runs when the
\* wrapper returns, whether or not the wrapper called it
RunMiddleware_AlwaysNext(s) ==
    /\ reqs[s].pc = "chain"
    /\ reqs[s].pos <= Len(routes[reqs[s].matched].Middleware)
    /\ LET name == ChainAt(routes[reqs[s].matched], reqs[s].pos)
           out == Middleware(name, reqs[s].r)
       IN  reqs' = [reqs EXCEPT ![s] =
               [@ EXCEPT !.executionOrder = Append(@, name),
                         !.status = out.status, !.body = out.body,
                         !.r = out.r, !.pos = @ + 1]]
    /\ UNCHANGED <<groups, phase, routes, trie, app>>

\* the wrapper at depth pos of the chain runs
RunMiddleware(s) ==
    /\ reqs[s].pc = "chain"
    /\ reqs[s].pos <= Len(routes[reqs[s].matched].Middleware)
    /\ LET name == ChainAt(routes[reqs[s].matched], reqs[s].pos)
           out == Middleware(name, reqs[s].r)
       IN  reqs' = [reqs EXCEPT ![s] =
               IF out.next
               THEN [@ EXCEPT !.executionOrder = Append(@, name),
                              !.r = out.r, !.pos = @ + 1]
               ELSE [@ EXCEPT !.executionOrder = Append(@, name),
                              !.status = out.status, !.body = out.body,
                              !.pc = "done"]]
    /\ UNCHANGED <<groups, phase, routes, trie, app>>

\* the innermost handler: route.Handler(c), a handler that reports what it
\* reads from c and answers 200
RunHandler(s) ==
    /\ reqs[s].pc = "chain"
    /\ reqs[s].pos = Len(routes[reqs[s].matched].Middleware) + 1
    /\ LET c == reqs[s].c
       IN  reqs' = [reqs EXCEPT ![s] =
               [@ EXCEPT !.executionOrder = Append(@, "handler"),
                         !.handled = [Handler |-> routes[reqs[s].matched].Handler,
                                      Params  |-> c.Params,
                                      userID  |-> IF UserIDKey \in DOMAIN c.Request.ctx
                                                  THEN c.Request.ctx[UserIDKey]
                                                  ELSE ""],
                         !.status = 200, !.body = "ok", !.pc = "done"]]
    /\ UNCHANGED <<groups, phase, routes, trie, app>>

(***************************************************************************)
(* Responses.  The writer follows net/http: the header map can be changed  *)
(* at any time, WriteHeader commits the status with the header as it is    *)
(* then, and the first Write commits 200 if nothing is committed and adds  *)
(* a Content-Type found from the data if the committed header has none.    *)
(***************************************************************************)
\* c.Header().Set(key, value)
HeaderSet(w, key, value) == [w EXCEPT !.header = MapSet(@, key, value)]

\* c.WriteHeader(code): only the first call commits
WriteHeader(w, code) ==
    IF w.wroteHeader THEN w
    ELSE [w EXCEPT !.wroteHeader = TRUE, !.code = code, !.sent = w.header]

\* http.DetectContentType on text: markup is told from plain text
DetectContentType(data) ==
    IF Len(data) >= 3 /\ SubSeq(data, 1, 3) = <<"<", "p", ">">>
    THEN "text/html; charset=utf-8"
    ELSE "text/plain; charset=utf-8"

\* c.Write(data)
Write(w, data) ==
    LET w1 == WriteHeader(w, 200)
        w2 == IF "Content-Type" \notin DOMAIN w1.sent /\ w1.body = <<>>
              THEN [w1 EXCEPT !.sent = MapSet(@, "Content-Type",
                                              DetectContentType(data))]
              ELSE w1
    IN  [w2 EXCEPT !.body = Append(@, data)]

\* json.Marshal: a channel cannot be encoded
Marshal(v) ==
    IF v = "chan" THEN [err |-> TRUE, data |-> <<>>]
    ELSE [err |-> FALSE, data |-> <<"\"", v, "\"">>]

\* the body that JSON writes when the encoding fails
EncodingErrorBody == <<"{", "error", "}">>

\* Context.JSON; Encode writes nothing when the encoding fails
JSON(w, log, status, v) ==
    LET w2 == WriteHeader(HeaderSet(w, "Content-Type", "application/json"), status)
        enc == Marshal(v)
    IN  IF ~enc.err
        THEN [w |-> Write(w2, enc.data \o <<"\n">>), log |-> log]
        ELSE [w |-> IF status < 400 THEN Write(w2, EncodingErrorBody) ELSE w2,
              log |-> Append(log, "Failed to encode JSON response")]

\* Context.Status; message holds the optional argument
Status(w, code, message) ==
    LET w1 == WriteHeader(w, code)
    IN  IF Len(message) > 0
        THEN Write(HeaderSet(w1, "Content-Type", "text/plain"), message[1])
        ELSE w1

\* a route handler that answers with c.JSON(status, v)
HandlerJSON(s, status, v) ==
    /\ reqs[s].pc = "chain"
    /\ reqs[s].pos = Len(routes[reqs[s].matched].Middleware) + 1
    /\ LET out == JSON(reqs[s].w, reqs[s].log, status, v)
       IN  reqs' = [reqs EXCEPT ![s] =
               [@ EXCEPT !.executionOrder = Append(@, "handler"),
                         !.handled = [Handler |-> routes[reqs[s].matched].Handler,
                                      Params  |-> reqs[s].c.Params,
                                      userID  |-> ""],
                         !.call = [fn |-> "JSON", code |-> status, arg |-> <<v>>],
                         !.w = out.w, !.log = out.log,
                         !.status = out.w.code, !.pc = "done"]]
    /\ UNCHANGED <<groups, phase, routes, trie, app>>

\* a route handler that answers with c.Status(code) or c.Status(code, text)
HandlerStatus(s, code, message) ==
    /\ reqs[s].pc = "chain"
    /\ reqs[s].pos = Len(routes[reqs[s].matched].Middleware) + 1
    /\ LET w == Status(reqs[s].w, code, message)
       IN  reqs' = [reqs EXCEPT ![s] =
               [@ EXCEPT !.executionOrder = Append(@, "handler"),
                         !.handled = [Handler |-> routes[reqs[s].matched].Handler,
                                      Params  |-> reqs[s].c.Params,
                                      userID  |-> ""],
                         !.call = [fn |-> "Status", code |-> code, arg |-> message],
                         !.w = w, !.status = w.code, !.pc = "done"]]
    /\ UNCHANGED <<groups, phase, routes, trie, app>>

(***************************************************************************)
(* Application: the global middleware, the list of them that WithMux has   *)
(* wrapped around the handler of the router (Mux), and whether Serve has   *)
(* been called.                                                            *)
(***************************************************************************)
NewApplication ==
    [GlobalMiddleware |-> <<>>, Mux |-> [set |-> FALSE, wrapped |-> <<>>],
     serving |-> FALSE]

\* app.Use(middleware...), before Serve
Use(middleware) ==
    /\ ~app.serving
    /\ Len(app.GlobalMiddleware) + Len(middleware) <= MaxGlobal
    /\ app' = [app EXCEPT !.GlobalMiddleware = @ \o middleware]
    /\ UNCHANGED <<groups, phase, routes, trie, reqs>>

\* app.WithMux(routes): router.ServeMux, wrapped in the global middleware
\* that the application holds at this moment, from the last to the first
WithMux ==
    /\ phase = "register"
    /\ phase' = "serving"
    /\ routes' = Build(groups)
    /\ trie' = InsertAll(NewTrie, routes', 1)
    /\ app' = [app EXCEPT !.Mux = [set |-> TRUE, wrapped |-> app.GlobalMiddleware]]
    /\ UNCHANGED <<groups, reqs>>

\* app.Serve(): the server starts with app.Mux as its handler
Serve ==
    /\ app.Mux.set
    /\ ~app.serving
    /\ app' = [app EXCEPT !.serving = TRUE]
    /\ UNCHANGED <<groups, phase, routes, trie, reqs>>

\* the wrappers of a list that ran before the innermost handler, or up to the
\* first that did not call next
RECURSIVE RunGlobal(_, _)
RunGlobal(wrapped, r) ==
    IF wrapped = <<>> THEN [next |-> TRUE, order |-> <<>>]
    ELSE IF Middleware(Head(wrapped), r).next
    THEN LET rest == RunGlobal(Tail(wrapped), r)
         IN  [next |-> rest.next, order |-> <<Head(wrapped)>> \o rest.order]
    ELSE [next |-> FALSE, order |-> <<Head(wrapped)>>]

\* one invocation of app.Mux on connection s: the wrapped global middleware,
\* then the handler of the router
AppServeHTTP(s, method, path, authorization) ==
    /\ app.serving
    /\ reqs[s].pc = "idle"
    /\ LET r == [Header |-> authorization, ctx |-> <<>>, URL |-> path]
           g == RunGlobal(app.Mux.wrapped, r)
           m == Match(trie, routes, method, path)
       IN  reqs' = [reqs EXCEPT ![s] =
               IF g.next
               THEN [Dispatch(m, method, path, r) EXCEPT !.executionOrder = g.order]
               ELSE [Idle EXCEPT !.pc = "done", !.Method = method, !.Path = path,
                                 !.r = r, !.executionOrder = g.order,
                                 !.status = Middleware(g.order[Len(g.order)], r).status]]
    /\ UNCHANGED <<groups, phase, routes, trie, app>>

Init ==
    /\ groups = NewRouter
    /\ phase = "register"
    /\ routes = <<>>
    /\ trie = NewTrie
    /\ reqs = [s \in Slots |-> Idle]
    /\ app = NewApplication

(***************************************************************************)
(* The routes registered and the requests sent.                            *)
(***************************************************************************)
\* "/" followed by the segments joined by "/"
Path(segs) == <<"/">> \o Join(segs, "/")

Lu == <<"u">>

Lp == <<"p">>

Ls == <<"s">>

Lf == <<"f">>

Lv == <<"7">>

Pi == <<"{", "i", "}">>

Pn == <<"{", "n", "}">>

Pc == <<"{", "c", "}">>

Pvar == <<"{", "p", ".", ".", ".", "}">>

\* a parameter segment that lacks its closing brace
Popen == <<"{", "i">>

\* Handle calls on the root group: method and path
RoutePool ==
    { <<"GET", Path(<<Lu, Pi>>)>>,
      <<"GET", Path(<<Lu, Lp>>)>>,
      <<"GET", Path(<<Lu, Pn>>)>>,
      <<"POST", Path(<<Lu, Pn>>)>>,
      <<"GET", Path(<<Lu, Pi, Ls>>)>>,
      <<"GET", Path(<<Pc, Pi>>)>>,
      <<"GET", Path(<<Pc>>)>>,
      <<"GET", Path(<<Lf, Pvar>>)>>,
      <<"GET", Path(<<Lu, Popen>>)>>,
      <<"GET", <<"/">>>> }

Methods == {"GET", "POST"}

RequestPaths ==
    { <<"/">>,
      Path(<<Lu>>),
      Path(<<Lu, Lv>>),
      Path(<<Lu, Lp>>),
      Path(<<Lu, Lv>>) \o <<"/">>,
      Path(<<Lu, Lv, Ls>>),
      Path(<<Lu, Lp, Ls>>),
      Path(<<Lu, Lv, Lp>>),
      Path(<<Lu, Lv, Lp, Ls>>),
      Path(<<Lf, Lv>>),
      Path(<<Lf, Lv, Lp>>),
      Path(<<Lv, Lp>>),
      Path(<<Lv>>) }

HandleRoute ==
    /\ NextHandler <= MaxRoutes
    /\ \E e \in RoutePool : Handle(1, e[1], e[2], <<>>)

Compile == ServeMux

Receive == \E m \in Methods, p \in RequestPaths : ServeHTTP("c1", m, p, "")

Call == RunHandler("c1")

Next == HandleRoute \/ Compile \/ Receive \/ Call

Spec == Init /\ [][Next]_vars

(***************************************************************************)
(* Groups and middleware: the registrations and requests of SpecMw.        *)
(***************************************************************************)
La == <<"a">>

Lb == <<"b">>

Lx == <<"x">>

Ly == <<"y">>

\* Group calls: prefix and middleware
GroupPool ==
    { <<Path(<<La>>), <<"g1", "g2">>>>,
      <<Path(<<Lb>>), <<"auth">>>> }

\* Handle calls on any group: method, path and middleware
MwRoutePool ==
    { <<"GET", Path(<<Lx>>), <<"r1">>>>,
      <<"GET", Path(<<Ly>>), <<"deny">>>> }

MwRequestPaths ==
    { Path(<<Lx>>),
      Path(<<La, Lx>>),
      Path(<<Lb, Lx>>),
      Path(<<Lb, Ly>>),
      Path(<<La, Lb, Lx>>),
      Path(<<La, Lb, Ly>>) }

Authorizations == {"", "Bearer good", "Bearer bad"}

GroupMw ==
    \E rg \in 1..Len(groups), e \in GroupPool : Group(rg, e[1], e[2])

HandleMw ==
    /\ NextHandler <= MaxRoutes
    /\ \E rg \in 1..Len(groups), e \in MwRoutePool : Handle(rg, e[1], e[2], e[3])

ReceiveMw ==
    \E p \in MwRequestPaths, a \in Authorizations : ServeHTTP("c1", "GET", p, a)

Wrap == RunMiddleware("c1")

NextMw == GroupMw \/ HandleMw \/ Compile \/ ReceiveMw \/ Wrap \/ Call

SpecMw == Init /\ [][NextMw]_vars

(***************************************************************************)
(* Thirteen routes on the root group: the registrations and requests of    *)
(* SpecMany.                                                               *)
(***************************************************************************)
\* five routes of two literal segments
TwoLiterals ==
    << <<"GET", Path(<<La, Lb>>)>>,
       <<"GET", Path(<<La, Lx>>)>>,
       <<"GET", Path(<<La, Ly>>)>>,
       <<"GET", Path(<<Lb, Lx>>)>>,
       <<"GET", Path(<<Lb, Ly>>)>> >>

\* six routes of at most one literal segment, in two orders
FewLiterals ==
    << <<"GET", <<"/">>>>,
       <<"GET", Path(<<Pc, Pi>>)>>,
       <<"GET", Path(<<Lf, Pvar>>)>>,
       <<"POST", Path(<<Lu, Pn>>)>>,
       <<"GET", Path(<<Pc>>)>>,
       <<"POST", <<"/">>>> >>

FewLiteralsSorted ==
    << <<"GET", Path(<<Lf, Pvar>>)>>,
       <<"POST", Path(<<Lu, Pn>>)>>,
       <<"GET", <<"/">>>>,
       <<"GET", Path(<<Pc, Pi>>)>>,
       <<"GET", Path(<<Pc>>)>>,
       <<"POST", <<"/">>>> >>

\* the sequences of Handle calls of a program: GET /u/{i} and GET /u/{n} in
\* both orders among eleven other routes, and once in a list that is
\* registered in the order of the literal counts
Programs ==
    { <<<<"GET", Path(<<Lu, Pi>>)>>>> \o TwoLiterals
          \o <<<<"GET", Path(<<Lu, Pn>>)>>>> \o FewLiterals,
      <<<<"GET", Path(<<Lu, Pn>>)>>>> \o TwoLiterals
          \o <<<<"GET", Path(<<Lu, Pi>>)>>>> \o FewLiterals,
      TwoLiterals \o << <<"GET", Path(<<Lu, Pi>>)>>, <<"GET", Path(<<Lu, Pn>>)>> >>
          \o FewLiteralsSorted }

\* the Handle calls made so far are the first calls of the program
Follows(prog) ==
    /\ Len(groups[1].routes) < Len(prog)
    /\ \A k \in 1..Len(groups[1].routes) :
          /\ groups[1].routes[k].Method = prog[k][1]
          /\ groups[1].routes[k].Path = FullPath(groups[1].prefix, prog[k][2])

HandleNext ==
    \E prog \in Programs :
        /\ Follows(prog)
        /\ Handle(1, prog[Len(groups[1].routes) + 1][1],
                  prog[Len(groups[1].routes) + 1][2], <<>>)

NextMany == HandleNext \/ Compile \/ Receive \/ Call

SpecMany == Init /\ [][NextMany]_vars

(***************************************************************************)
(* Prefixes and paths written with and without slashes: the registrations  *)
(* of SpecJoin.                                                            *)
(***************************************************************************)
\* Group calls: the prefix
PrefixPool == { <<"a", "/">>, <<"/", "b">>, <<>> }

\* Handle calls: the path
PathPool == { <<"x">>, <<"/", "x", "/">> }

GroupJoin ==
    \E rg \in 1..Len(groups), prefix \in PrefixPool : Group(rg, prefix, <<>>)

HandleJoin ==
    /\ NextHandler <= MaxRoutes
    /\ \E rg \in 1..Len(groups), path \in PathPool : Handle(rg, "GET", path, <<>>)

NextJoin == GroupJoin \/ HandleJoin \/ Compile

SpecJoin == Init /\ [][NextJoin]_vars

(***************************************************************************)
(* Two connections served at once: the registrations and requests of       *)
(* SpecCo.                                                                 *)
(***************************************************************************)
CoRoutePool ==
    { <<"GET", Path(<<Lu, Pi>>)>>,
      <<"GET", Path(<<Lu, Lp>>)>>,
      <<"GET", Path(<<Pc, Pn>>)>> }

CoRequestPaths ==
    { Path(<<Lu, Lv>>),
      Path(<<Lu, Lp>>),
      Path(<<Lv, Lp, Ls>>),
      Path(<<Lf>>) }

HandleCo ==
    /\ NextHandler <= MaxRoutes
    /\ \E e \in CoRoutePool : Handle(1, e[1], e[2], <<>>)

ReceiveCo ==
    \E s \in Slots, p \in CoRequestPaths : ServeHTTP(s, "GET", p, "")

CallCo == \E s \in Slots : RunHandler(s)

NextCo == HandleCo \/ Compile \/ ReceiveCo \/ CallCo

SpecCo == Init /\ [][NextCo]_vars

(***************************************************************************)
(* Handlers that answer through Context.JSON and Context.Status: the       *)
(* registrations, requests and answers of SpecCtx.                         *)
(***************************************************************************)
\* the status codes that the handlers of the application pass
StatusCodes == {200, 201, 400, 404, 500}

\* values given to JSON: one that encodes and one that does not
Values == {"ticket", "chan"}

\* the optional text given to Status: none, plain text, markup
Messages == { <<>>, <<<<"I", "D">>>>, <<<<"<", "p", ">", "x">>>> }

ReceiveCtx == \E p \in CoRequestPaths : ServeHTTP("c1", "GET", p, "")

CallJSON == \E status \in StatusCodes, v \in Values : HandlerJSON("c1", status, v)

CallStatus ==
    \E code \in StatusCodes, message \in Messages : HandlerStatus("c1", code, message)

NextCtx == HandleCo \/ Compile \/ ReceiveCtx \/ CallJSON \/ CallStatus

SpecCtx == Init /\ [][NextCtx]_vars

(***************************************************************************)
(* The project routes of the application: the registrations and requests   *)
(* of SpecOwn.                                                             *)
(***************************************************************************)
Pid == <<"{", "i", "d", "}">>

\* Handle calls on the group of the projects: method, path and middleware
OwnRoutePool ==
    { <<"GET", Path(<<Pid>>), <<>>>>,
      <<"PUT", Path(<<Pid>>), <<"owner">>>>,
      <<"DELETE", Path(<<Pid>>), <<"owner">>>> }

\* a project of the user, a project of another user, no project
OwnRequestPaths == { Path(<<Lp, <<"7">>>>), Path(<<Lp, <<"8">>>>), Path(<<Lp, <<"9">>>>) }

GroupOwn ==
    /\ Len(groups) = 1
    /\ Group(1, Path(<<Lp>>), <<"auth">>)

HandleOwn ==
    /\ NextHandler <= MaxRoutes
    /\ Len(groups) = 2
    /\ \E e \in OwnRoutePool : Handle(2, e[1], e[2], e[3])

ReceiveOwn ==
    \E method \in {"GET", "PUT", "DELETE"}, p \in OwnRequestPaths,
       a \in Authorizations : ServeHTTP("c1", method, p, a)

NextOwn == GroupOwn \/ HandleOwn \/ Compile \/ ReceiveOwn \/ Wrap \/ Call

SpecOwn == Init /\ [][NextOwn]_vars

(***************************************************************************)
(* An application with global middleware: the calls and requests of        *)
(* SpecApp.                                                                *)
(***************************************************************************)
\* Use calls: the middleware passed
UsePool == { <<"m1">>, <<"m2">>, <<"m1", "m2">> }

\* Handle calls on the root group: method, path and middleware
AppRoutePool ==
    { <<"GET", Path(<<Lx>>), <<"r1">>>>,
      <<"GET", Path(<<La, Pi>>), <<>>>> }

\* requests for a route with middleware, for a route without, for no route
AppRequestPaths == { Path(<<Lx>>), Path(<<La, Lv>>), Path(<<Ly>>) }

UseApp == \E middleware \in UsePool : Use(middleware)

HandleApp ==
    /\ NextHandler <= MaxRoutes
    /\ \E e \in AppRoutePool : Handle(1, e[1], e[2], e[3])

ReceiveApp == \E p \in AppRequestPaths : AppServeHTTP("c1", "GET", p, "")

NextApp == UseApp \/ HandleApp \/ WithMux \/ Serve \/ ReceiveApp \/ Wrap \/ Call

SpecApp == Init /\ [][NextApp]_vars

TypeOK ==
    /\ phase \in {"register", "serving"}
    /\ \A s \in Slots : reqs[s].pc \in {"idle", "chain", "done"}

(***************************************************************************)
(* What the claims speak of, stated on the list of routes and on the       *)
(* request, not on the trie.                                               *)
(***************************************************************************)
\* the segments of a request path
Segs(path) ==
    IF Trim(path, {"/"}) = <<>> THEN <<>> ELSE Split(Trim(path, {"/"}), "/")

\* segs is psegs with each parameter segment replaced by one segment
Instantiates(segs, psegs) ==
    /\ Len(segs) = Len(psegs)
    /\ \A k \in 1..Len(psegs) : IsParam(psegs[k]) \/ psegs[k] = segs[k]

\* the first n segments of p and q lead to the same position of the trie
SamePosition(p, q, n) ==
    /\ Len(p) >= n
    /\ Len(q) >= n
    /\ \A j \in 1..n : (IsParam(p[j]) /\ IsParam(q[j])) \/ p[j] = q[j]

SameShape(p, q) == Len(p) = Len(q) /\ SamePosition(p, q, Len(p))

\* no earlier route of the list has the method and the shape of routes[ri]
FirstOfShape(ri) ==
    \A j \in 1..(ri - 1) :
        ~ (/\ routes[j].Method = routes[ri].Method
           /\ SameShape(routes[j].Pattern.segments, routes[ri].Pattern.segments))

\* a value of segs stands where some route has that text as a literal
\* segment, at the position of a parameter of psegs
MeetsLiteral(segs, psegs) ==
    \E k \in 1..Len(psegs), q \in 1..Len(routes) :
        /\ IsParam(psegs[k])
        /\ SamePosition(psegs, routes[q].Pattern.segments, k - 1)
        /\ Len(routes[q].Pattern.segments) >= k
        /\ ~IsParam(routes[q].Pattern.segments[k])
        /\ routes[q].Pattern.segments[k] = segs[k]

\* the handler of routes[ri] ran and read, under each parameter name of the
\* route, the segment that replaces the parameter
HandledBy(s, ri) ==
    LET segs == Segs(reqs[s].Path)
        psegs == routes[ri].Pattern.segments
    IN  /\ reqs[s].handled.Handler = routes[ri].Handler
        /\ \A k \in 1..Len(psegs) :
              IsParam(psegs[k]) =>
                  Param(reqs[s].c, Trim(psegs[k], {"{", "}"})) = segs[k]

\* C1 as stated: every registered route (M, P) gets the requests with method
\* M whose path instantiates P, and its handler reads the substituted values.
C1_AsStated ==
    \A s \in Slots, ri \in 1..Len(routes) :
        (/\ reqs[s].pc = "done"
         /\ reqs[s].Method = routes[ri].Method
         /\ Instantiates(Segs(reqs[s].Path), routes[ri].Pattern.segments))
        => HandledBy(s, ri)

\* C1 amended: a request with method M whose path instantiates P is handled
\* by P's handler, which reads the substituted values, provided P is the
\* first route of Build's list with its method and shape and no substituted
\* value equals a literal segment registered at that position of the trie.
C1_Instantiation ==
    \A s \in Slots, ri \in 1..Len(routes) :
        (/\ reqs[s].pc = "done"
         /\ reqs[s].Method = routes[ri].Method
         /\ Instantiates(Segs(reqs[s].Path), routes[ri].Pattern.segments)
         /\ FirstOfShape(ri)
         /\ ~MeetsLiteral(Segs(reqs[s].Path), routes[ri].Pattern.segments))
        => HandledBy(s, ri)

\* a request for /7/p was handled by the route GET /{c}/{i}, registered
\* together with another route
C1_Witness ==
    \E ri \in 1..Len(routes) :
        /\ Len(routes) > 1
        /\ reqs["c1"].pc = "done"
        /\ reqs["c1"].Path = Path(<<Lv, Lp>>)
        /\ routes[ri].Path = Path(<<Pc, Pi>>)
        /\ reqs["c1"].handled.Handler = routes[ri].Handler
        /\ Param(reqs["c1"].c, <<"c">>) = Lv
        /\ Param(reqs["c1"].c, <<"i">>) = Lp

\* the first route of the list with the method and the shape of routes[ri]
FirstLike(ri) ==
    CHOOSE j \in 1..ri :
        /\ routes[j].Method = routes[ri].Method
        /\ SameShape(routes[j].Pattern.segments, routes[ri].Pattern.segments)
        /\ FirstOfShape(j)

\* routes[l] has only literal segments and routes[pm] differs from it in the
\* final segment alone, which is a parameter; the methods are the same
LiteralAndParam(l, pm) ==
    LET lit == routes[l].Pattern.segments
        par == routes[pm].Pattern.segments
    IN  /\ routes[l].Method = routes[pm].Method
        /\ Len(lit) = Len(par)
        /\ Len(lit) >= 1
        /\ \A k \in 1..Len(lit) : ~IsParam(lit[k]) /\ ~HasPrefix(lit[k], "{")
        /\ \A k \in 1..(Len(lit) - 1) : par[k] = lit[k]
        /\ IsParam(par[Len(par)])

\* C2: with a literal route and a parameter route of the same prefix, depth
\* and method registered, a request for the literal route's path runs the
\* literal route's handler and not the parameter route's, whichever of the
\* two was registered first.
C2_LiteralBeforeParam ==
    \A s \in Slots, l \in 1..Len(routes), pm \in 1..Len(routes) :
        (/\ reqs[s].pc = "done"
         /\ LiteralAndParam(l, pm)
         /\ reqs[s].Method = routes[l].Method
         /\ Segs(reqs[s].Path) = routes[l].Pattern.segments)
        => /\ reqs[s].handled.Handler = routes[FirstLike(l)].Handler
           /\ reqs[s].handled.Handler # routes[pm].Handler

\* GET /u/{i} was registered before GET /u/p and the request for /u/p ran
\* the handler of GET /u/p
C2_Witness ==
    \E l \in 1..Len(routes), pm \in 1..Len(routes) :
        /\ LiteralAndParam(l, pm)
        /\ routes[pm].Handler < routes[l].Handler
        /\ reqs["c1"].pc = "done"
        /\ reqs["c1"].Path = Path(<<Lu, Lp>>)
        /\ reqs["c1"].Method = routes[l].Method
        /\ reqs["c1"].handled.Handler = routes[l].Handler

\* the final parameter of psegs takes two or more segments of segs, the
\* segments before it instantiate the rest of psegs
GreedyInstantiates(segs, psegs) ==
    /\ Len(psegs) >= 1
    /\ IsParam(psegs[Len(psegs)])
    /\ Len(segs) > Len(psegs)
    /\ Instantiates(SubSeq(segs, 1, Len(psegs) - 1),
                    SubSeq(psegs, 1, Len(psegs) - 1))

NotFoundAnswer(s) ==
    /\ reqs[s].status = 404
    /\ reqs[s].body = "404 page not found"
    /\ reqs[s].handled = NoHandler

IsVariadic(seg) ==
    /\ IsParam(seg)
    /\ Len(seg) >= 5
    /\ SubSeq(seg, Len(seg) - 3, Len(seg) - 1) = <<".", ".", ".">>

HandledVariadic(s) ==
    /\ reqs[s].handled.Handler # 0
    /\ routes[reqs[s].matched].Pattern.segments # <<>>
    /\ routes[reqs[s].matched].Pattern.segments[
           Len(routes[reqs[s].matched].Pattern.segments)] = Pvar

\* the segments of the request from the position of the final segment of the
\* matched pattern on, joined by "/"
Remainder(s) ==
    Join(SubSeq(Segs(reqs[s].Path),
                Len(routes[reqs[s].matched].Pattern.segments),
                Len(Segs(reqs[s].Path))), "/")

ParentOf(g) ==
    CHOOSE p \in 1..Len(groups) :
        \E k \in 1..Len(groups[p].groups) : groups[p].groups[k] = g

\* the middleware of the groups from the root down to g
RECURSIVE InheritedMiddleware(_)
InheritedMiddleware(g) ==
    IF g = 1 THEN groups[1].middleware
    ELSE InheritedMiddleware(ParentOf(g)) \o groups[g].middleware

\* the chain of the route registered with handler h: the middleware of its
\* groups, then its own
RegisteredChain(h) ==
    LET g == CHOOSE g \in 1..Len(groups) :
                 \E k \in 1..Len(groups[g].routes) : groups[g].routes[k].Handler = h
        k == CHOOSE k \in 1..Len(groups[g].routes) : groups[g].routes[k].Handler = h
    IN  InheritedMiddleware(g) \o groups[g].routes[k].Middleware

\* C3: the chain of every route returned by Build is the middleware of its
\* ancestor groups from the root to the leaf followed by the route's own.
C3_AsStated ==
    phase = "serving" =>
        \A ri \in 1..Len(routes) :
            routes[ri].Middleware = RegisteredChain(routes[ri].Handler)

\* C4: on a matched request the middleware of the route (group middleware
\* from the root down, then the route's own) start in that order, and the
\* handler runs after all of them.
C4_AsStated ==
    \A s \in Slots :
        reqs[s].matched # 0 =>
            LET chain == RegisteredChain(routes[reqs[s].matched].Handler)
                            \o <<"handler">>
            IN  /\ Len(reqs[s].executionOrder) <= Len(chain)
                /\ reqs[s].executionOrder =
                       SubSeq(chain, 1, Len(reqs[s].executionOrder))

\* the order in which the list that Build left in the matched route is run:
\* its first middleware is the outermost wrapper
OrderOfBuiltList ==
    \A s \in Slots :
        reqs[s].matched # 0 =>
            LET chain == routes[reqs[s].matched].Middleware \o <<"handler">>
            IN  /\ Len(reqs[s].executionOrder) <= Len(chain)
                /\ reqs[s].executionOrder =
                       SubSeq(chain, 1, Len(reqs[s].executionOrder))

\* the middleware that ran at position j did not call the handler it wraps
Refused(s, j) ==
    /\ reqs[s].executionOrder[j] # "handler"
    /\ ~Middleware(reqs[s].executionOrder[j], reqs[s].r).next

\* C5: once a middleware of the chain has returned without calling its inner
\* handler, it is the last thing that ran for the request: no later
\* middleware and no route handler runs, and the answer is the one that
\* middleware wrote.
C5_ShortCircuit ==
    \A s \in Slots :
        \A j \in 1..Len(reqs[s].executionOrder) :
            Refused(s, j) =>
                /\ j = Len(reqs[s].executionOrder)
                /\ reqs[s].pc = "done"
                /\ reqs[s].handled = NoHandler
                /\ reqs[s].status = Middleware(reqs[s].executionOrder[j], reqs[s].r).status
                /\ reqs[s].body = Middleware(reqs[s].executionOrder[j], reqs[s].r).body

\* "deny" ran after three group middleware, wrote 403 and nothing ran after
\* it
C5_Witness ==
    /\ reqs["c1"].pc = "done"
    /\ reqs["c1"].executionOrder = <<"g1", "g2", "auth", "deny">>
    /\ reqs["c1"].status = 403
    /\ reqs["c1"].handled = NoHandler

\* C6: the handler reads the request that the innermost middleware passed
\* on, so a value a middleware put in the request context (the user id of
\* AuthMiddleware) is in c.Request.Context() when the handler runs.
C6_AsStated ==
    \A s \in Slots :
        reqs[s].handled.Handler # 0 =>
            /\ reqs[s].c.Request = reqs[s].r
            /\ (UserIDKey \in DOMAIN reqs[s].r.ctx
                   => reqs[s].handled.userID = reqs[s].r.ctx[UserIDKey])

\* C8: a request that matches no route is answered 404 and neither a handler
\* nor a middleware of any route runs for it.
C8_NoMatchRunsNothing ==
    \A s \in Slots :
        (reqs[s].pc # "idle" /\ ~Match(trie, routes, reqs[s].Method, reqs[s].Path).ok)
        => /\ reqs[s].pc = "done"
           /\ reqs[s].status = 404
           /\ reqs[s].executionOrder = <<>>
           /\ reqs[s].handled = NoHandler

\* a request for /x was answered 404 while the only routes, with their
\* middleware, are registered in groups
C8_Witness ==
    /\ reqs["c1"].pc = "done"
    /\ reqs["c1"].Path = Path(<<Lx>>)
    /\ reqs["c1"].status = 404
    /\ reqs["c1"].executionOrder = <<>>
    /\ Len(routes) >= 1
    /\ \A ri \in 1..Len(routes) : routes[ri].Middleware # <<>>

\* literal segments followed by one final parameter
LiteralsThenParam(psegs) ==
    /\ Len(psegs) >= 1
    /\ IsParam(psegs[Len(psegs)])
    /\ \A k \in 1..(Len(psegs) - 1) : ~HasPrefix(psegs[k], "{")

\* C11: with a single registered route of k literal segments followed by one
\* final parameter {p}, a request of its method with those k literals and
\* n >= 1 further segments is handled by it, and Param(p) is those n
\* segments joined by "/".
C11_CatchAll ==
    \A s \in Slots :
        LET psegs == routes[1].Pattern.segments
            segs == Segs(reqs[s].Path)
        IN  (/\ Len(routes) = 1
             /\ reqs[s].pc = "done"
             /\ reqs[s].Method = routes[1].Method
             /\ LiteralsThenParam(psegs)
             /\ Len(segs) >= Len(psegs)
             /\ SubSeq(segs, 1, Len(psegs) - 1) = SubSeq(psegs, 1, Len(psegs) - 1))
            => /\ reqs[s].handled.Handler = routes[1].Handler
               /\ Param(reqs[s].c, Trim(psegs[Len(psegs)], {"{", "}"}))
                      = Join(SubSeq(segs, Len(psegs), Len(segs)), "/")

\* with GET /u/{i} the only route, the request for /u/7/p/s was handled with
\* i = "7/p/s"
C11_Witness ==
    /\ Len(routes) = 1
    /\ routes[1].Path = Path(<<Lu, Pi>>)
    /\ reqs["c1"].Path = Path(<<Lu, Lv, Lp, Ls>>)
    /\ reqs["c1"].handled.Handler = routes[1].Handler
    /\ Param(reqs["c1"].c, <<"i">>) = <<"7", "/", "p", "/", "s">>

\* the path with its trailing "/" removed, or with one appended
ToggleSlash(path) ==
    IF path[Len(path)] = "/"
    THEN SubSeq(path, 1, Len(path) - 1)
    ELSE path \o <<"/">>

\* C12: a path other than "/" and the same path with a trailing "/" appended
\* or removed select the same route and capture the same parameter values.
C12_TrailingSlash ==
    \A s \in Slots :
        (reqs[s].pc # "idle" /\ Len(reqs[s].Path) > 1) =>
            LET m == Match(trie, routes, reqs[s].Method, ToggleSlash(reqs[s].Path))
            IN  /\ m.ok <=> reqs[s].matched # 0
                /\ m.ok =>
                      /\ m.route = reqs[s].matched
                      /\ m.paramValues = reqs[s].paramValues
                      /\ NewContext(routes[m.route], m.paramValues, reqs[s].r).Params
                             = reqs[s].c.Params

\* the request for /u/7/ was handled by GET /u/{i} with i = "7"
C12_Witness ==
    /\ reqs["c1"].Path = Path(<<Lu, Lv>>) \o <<"/">>
    /\ reqs["c1"].handled.Handler # 0
    /\ routes[reqs["c1"].matched].Path = Path(<<Lu, Pi>>)
    /\ Param(reqs["c1"].c, <<"i">>) = Lv

\* C13: of two routes with the same method and the same shape, the one
\* registered first comes first in the list of Build and handles every
\* request that matches them.
C13_AsStated ==
    /\ \A i, j \in 1..Len(routes) :
          (/\ i < j
           /\ routes[i].Method = routes[j].Method
           /\ SameShape(routes[i].Pattern.segments, routes[j].Pattern.segments))
          => routes[i].Handler < routes[j].Handler
    /\ \A s \in Slots, j \in 1..Len(routes) :
          (/\ reqs[s].handled.Handler # 0
           /\ routes[j].Method = routes[reqs[s].matched].Method
           /\ SameShape(routes[j].Pattern.segments,
                        routes[reqs[s].matched].Pattern.segments))
          => reqs[s].handled.Handler <= routes[j].Handler

\* the name of a parameter segment
NameOf(seg) == Trim(seg, {"{", "}"})

\* the number of parameter segments among the first k segments
RECURSIVE ParamsUpTo(_, _)
ParamsUpTo(psegs, k) ==
    IF k = 0 THEN 0
    ELSE ParamsUpTo(psegs, k - 1) + (IF IsParam(psegs[k]) THEN 1 ELSE 0)

\* routes[i] and routes[j] have differently named parameters at position k
\* of the trie
NamesDiffer(i, j, k) ==
    /\ SamePosition(routes[i].Pattern.segments, routes[j].Pattern.segments, k)
    /\ IsParam(routes[i].Pattern.segments[k])
    /\ IsParam(routes[j].Pattern.segments[k])
    /\ NameOf(routes[i].Pattern.segments[k]) # NameOf(routes[j].Pattern.segments[k])

WellFormed(psegs) ==
    \A k \in 1..Len(psegs) :
        /\ HasPrefix(psegs[k], "{") => HasSuffix(psegs[k], "}")
        /\ IsVariadic(psegs[k]) => k = Len(psegs)

\* C15: a malformed pattern is refused when it is registered: no group
\* holds a route with such a pattern and Build returns none.
C15_AsStated ==
    /\ \A g \in 1..Len(groups) :
          \A k \in 1..Len(groups[g].routes) :
              WellFormed(groups[g].routes[k].Pattern.segments)
    /\ \A ri \in 1..Len(routes) : WellFormed(routes[ri].Pattern.segments)

\* prefixes and paths with and without leading and trailing slashes
Spellings ==
    { <<>>, <<"/">>, <<"a">>, <<"/", "a">>, <<"a", "/">>, <<"/", "a", "/">>,
      <<"a", "/", "x", "/">> }

\* the group in which routes[ri] was registered
GroupOf(ri) ==
    CHOOSE g \in 1..Len(groups) :
        \E k \in 1..Len(groups[g].routes) :
            groups[g].routes[k].Handler = routes[ri].Handler

\* C16: the full path that Group and Handle make of a parent prefix and a
\* child part, each written with or without leading and trailing slashes,
\* has the segments of the parent followed by those of the child, with
\* exactly one "/" between the two; an empty child part adds nothing.
\* Stated for the group created last, which every group once was.
C16_OneSeparator ==
    /\ \A child \in Spellings :
          NewPattern(FullPath(groups[Len(groups)].prefix, child)).segments
              = Segs(groups[Len(groups)].prefix) \o Segs(child)
    /\ Len(groups) > 1 =>
          \E child \in PrefixPool :
              Segs(groups[Len(groups)].prefix)
                  = Segs(groups[ParentOf(Len(groups))].prefix) \o Segs(child)
    /\ \A ri \in 1..Len(routes) :
          /\ routes[ri].Pattern.segments
                 = Segs(groups[GroupOf(ri)].prefix) \o <<<<"x">>>>
          /\ \A k \in 1..(Len(routes[ri].Path) - 1) :
                ~(routes[ri].Path[k] = "/" /\ routes[ri].Path[k + 1] = "/")

\* Group("a/").Group("/b").GET("x") has registered the pattern /a/b/x
C16_Witness ==
    /\ Len(groups) = 3
    /\ groups[2].prefix = <<"/", "a", "/">>
    /\ groups[3].prefix = <<"/", "a", "/", "b">>
    /\ Len(routes) >= 1
    /\ routes[1].Path = <<"/", "a", "/", "b", "/", "x">>
    /\ routes[1].Pattern.segments = <<<<"a">>, <<"b">>, <<"x">>>>

\* the route registered with handler h, as Handle stored it in its group
Registered(h) ==
    LET g == CHOOSE g \in 1..Len(groups) :
                 \E k \in 1..Len(groups[g].routes) : groups[g].routes[k].Handler = h
        k == CHOOSE k \in 1..Len(groups[g].routes) : groups[g].routes[k].Handler = h
    IN  groups[g].routes[k]

\* C17: Build returns every route registered anywhere in the group tree
\* exactly once, ordered by non-increasing LiteralCount.
C17_EveryRouteOnceSorted ==
    phase = "serving" =>
        /\ Len(routes) = RouteCount(groups, Len(groups))
        /\ \A h \in 1..RouteCount(groups, Len(groups)) :
              \E ri \in 1..Len(routes) :
                  /\ routes[ri].Handler = h
                  /\ routes[ri].Method = Registered(h).Method
                  /\ routes[ri].Path = Registered(h).Path
                  /\ routes[ri].Pattern = Registered(h).Pattern
                  /\ \A rj \in 1..Len(routes) :
                        routes[rj].Handler = h => rj = ri
        /\ \A i, j \in 1..Len(routes) :
              i < j => LiteralCount(routes[i].Pattern) >= LiteralCount(routes[j].Pattern)

\* two routes of different groups were built, and the one registered second
\* has more literal segments and comes first
C17_Witness ==
    /\ phase = "serving"
    /\ Len(routes) = 2
    /\ Len(groups) = 3
    /\ routes[1].Handler = 2
    /\ routes[2].Handler = 1
    /\ LiteralCount(routes[1].Pattern) = 3
    /\ LiteralCount(routes[2].Pattern) = 1

\* what the request of connection s resolves to when it is served alone
Alone(s) == Match(trie, routes, reqs[s].Method, reqs[s].Path)

\* the request of connection s has the route, the values and the Context
\* that it has when served alone
SameAsAlone(s) ==
    /\ Alone(s).ok <=> reqs[s].matched # 0
    /\ Alone(s).ok =>
          /\ reqs[s].matched = Alone(s).route
          /\ reqs[s].paramValues = Alone(s).paramValues
          /\ reqs[s].c = NewContext(routes[Alone(s).route], Alone(s).paramValues,
                                    reqs[s].c.Request)
          /\ reqs[s].handled # NoHandler =>
                /\ reqs[s].handled.Handler = routes[Alone(s).route].Handler
                /\ reqs[s].handled.Params = reqs[s].c.Params

\* C18: serving never changes the trie or the list of routes, and in every
\* interleaving of two requests each has the route, the parameter values and
\* the Context of its own that it has when served alone.
C18_ReadOnlyLookup ==
    /\ [](\A s \in Slots : reqs[s].pc # "idle" => SameAsAlone(s))
    /\ [][phase = "serving" => (trie' = trie /\ routes' = routes)]_vars

\* while the request for /u/7 waits for its handler with i = "7", the
\* request for /7/p/s was handled by another route with c = "7", n = "p/s"
C18_Witness ==
    /\ reqs["c1"].pc = "chain"
    /\ reqs["c1"].Path = Path(<<Lu, Lv>>)
    /\ Param(reqs["c1"].c, <<"i">>) = Lv
    /\ reqs["c2"].pc = "done"
    /\ reqs["c2"].handled.Handler # 0
    /\ reqs["c2"].matched # reqs["c1"].matched
    /\ Param(reqs["c2"].c, <<"n">>) = <<"p", "/", "s">>
    /\ Param(reqs["c2"].c, <<"c">>) = Lv

\* the fallback body of JSON was written to the client
FallbackWritten(s) ==
    \E k \in 1..Len(reqs[s].w.body) : reqs[s].w.body[k] = EncodingErrorBody

\* C19: when JSON fails to encode the value, the failure is logged, and the
\* fallback body is written only if no success status had been committed
\* before; after a committed success status nothing is appended.
C19_AsStated ==
    \A s \in Slots :
        (reqs[s].call.fn = "JSON" /\ Marshal(reqs[s].call.arg[1]).err) =>
            /\ reqs[s].log # <<>>
            /\ (reqs[s].w.wroteHeader /\ reqs[s].w.code < 400) =>
                  ~FallbackWritten(s)

\* the media type of a Content-Type value, without its parameters
MediaType(value) ==
    IF value \in {"text/plain", "text/plain; charset=utf-8"} THEN "text/plain"
    ELSE IF value = "text/html; charset=utf-8" THEN "text/html"
    ELSE value

\* C20: Status(code, message) commits the status code with the Content-Type
\* text/plain that Status set and the message as body; Status(code) commits
\* the status only.
C20_AsStated ==
    \A s \in Slots :
        reqs[s].call.fn = "Status" =>
            /\ reqs[s].w.wroteHeader
            /\ reqs[s].w.code = reqs[s].call.code
            /\ reqs[s].call.arg = <<>> => reqs[s].w.body = <<>>
            /\ reqs[s].call.arg # <<>> =>
                  /\ reqs[s].w.body = <<reqs[s].call.arg[1]>>
                  /\ "Content-Type" \in DOMAIN reqs[s].w.sent
                  /\ MediaType(reqs[s].w.sent["Content-Type"]) = "text/plain"

\* C21: a request whose path instantiates, segment for segment, the pattern
\* of some route registered for its method is never answered 404, also when
\* a literal child was taken at a node whose parameter branch leads to that
\* route.
C21_AsStated ==
    \A s \in Slots :
        (/\ reqs[s].pc = "done"
         /\ \E ri \in 1..Len(routes) :
               /\ routes[ri].Method = reqs[s].Method
               /\ Instantiates(Segs(reqs[s].Path), routes[ri].Pattern.segments))
        => reqs[s].status # 404

\* psegs with each parameter segment replaced by the next of the values
RECURSIVE Substitute(_, _)
Substitute(psegs, values) ==
    IF psegs = <<>> THEN <<>>
    ELSE IF IsParam(Head(psegs))
    THEN <<IF values = <<>> THEN <<>> ELSE Head(values)>>
             \o Substitute(Tail(psegs), IF values = <<>> THEN <<>> ELSE Tail(values))
    ELSE <<Head(psegs)>> \o Substitute(Tail(psegs), values)

\* C22: for every successful match, the pattern of the matched route with
\* each parameter segment replaced by its captured value is the request path
\* without its leading and trailing slashes: no segment is dropped or
\* repeated, also when the final parameter takes several segments.
C22_AsStated ==
    \A s \in Slots :
        reqs[s].matched # 0 =>
            Join(Substitute(routes[reqs[s].matched].Pattern.segments,
                            reqs[s].paramValues), "/")
                = Trim(reqs[s].Path, {"/"})

\* the elements of a list
Range(seq) == {seq[k] : k \in 1..Len(seq)}

\* the group and the position in it where the route with handler h was
\* registered
RegisteredAt(h) ==
    CHOOSE gk \in {<<g, k>> : g \in 1..Len(groups), k \in 1..MaxRoutes} :
        /\ gk[2] <= Len(groups[gk[1]].routes)
        /\ groups[gk[1]].routes[gk[2]].Handler = h

\* C23: after Build every route holds only the middleware of its own
\* ancestor groups and its own route-local middleware, as many as were
\* registered; the building of another route or group leaves nothing of that
\* other route's or group's middleware in it.
C23_AsStated ==
    phase = "serving" =>
        \A ri \in 1..Len(routes) :
            LET at == RegisteredAt(routes[ri].Handler)
                inherited == InheritedMiddleware(at[1])
                own == groups[at[1]].routes[at[2]].Middleware
            IN  /\ Len(routes[ri].Middleware) = Len(inherited) + Len(own)
                /\ Range(routes[ri].Middleware) \subseteq Range(inherited) \cup Range(own)

\* C24: for every successful match Match returns as many values as the
\* matched route has parameter names, at the end of the path and through the
\* fallback alike, and the Context of the request holds a value under every
\* parameter name of the route.
C24_ValuesAndNames ==
    \A s \in Slots :
        reqs[s].matched # 0 =>
            /\ Len(reqs[s].paramValues) = Len(routes[reqs[s].matched].paramNames)
            /\ DOMAIN reqs[s].c.Params = Range(routes[reqs[s].matched].paramNames)

\* GET /u/7/p was matched through the fallback to a route with two
\* parameters, and the handler read both values
C24_Witness ==
    /\ reqs["c1"].pc = "done"
    /\ reqs["c1"].matched # 0
    /\ Len(routes[reqs["c1"].matched].paramNames) = 2
    /\ Len(Segs(reqs["c1"].Path)) = 3
    /\ reqs["c1"].paramValues = <<Lu, <<"7", "/", "p">>>>
    /\ reqs["c1"].handled.Params = reqs["c1"].c.Params
    /\ Cardinality(DOMAIN reqs["c1"].c.Params) = 2

\* the orders in which n routes can be inserted
Orders(n) ==
    {f \in [1..n -> 1..n] : \A i, j \in 1..n : i # j => f[i] # f[j]}

\* the list rs in the order f
Reordered(rs, f) == [k \in 1..Len(rs) |-> rs[f[k]]]

\* Match on the trie that holds the routes rs inserted first to last: the
\* handler of the route returned, and the values
MatchAfterInserts(rs, method, path) ==
    LET m == Match(InsertAll(NewTrie, rs, 1), rs, method, path)
    IN  [ok |-> m.ok,
         Handler |-> IF m.ok THEN rs[m.route].Handler ELSE 0,
         paramValues |-> m.paramValues]

\* any two routes of the list differ in method or in shape
NoTwoAlike ==
    \A i, j \in 1..Len(routes) :
        i # j => \/ routes[i].Method # routes[j].Method
                 \/ ~SameShape(routes[i].Pattern.segments, routes[j].Pattern.segments)

\* what Match returned for the request on connection s
Matched(s) ==
    [ok |-> reqs[s].matched # 0,
     Handler |-> IF reqs[s].matched # 0 THEN routes[reqs[s].matched].Handler ELSE 0,
     paramValues |-> reqs[s].paramValues]

\* C25: when the routes differ from one another in method or in shape, a
\* request is answered with the same route and the same values in whichever
\* order the routes were inserted in the trie.
C25_OrderOfInserts ==
    NoTwoAlike =>
        \A s \in Slots :
            reqs[s].pc # "idle" =>
                \A f \in Orders(Len(routes)) :
                    MatchAfterInserts(Reordered(routes, f), reqs[s].Method,
                                      reqs[s].Path) = Matched(s)

\* GET /u/{i} and POST /u/{n} were inserted in this order, the trie of the
\* other order binds the terminal node the other way round, and GET /u/7 was
\* handled with the value "7"
C25_Witness ==
    /\ phase = "serving"
    /\ Len(routes) = 2
    /\ NoTwoAlike
    /\ routes[1].Method = "GET" /\ routes[1].Path = Path(<<Lu, Pi>>)
    /\ routes[2].Method = "POST" /\ routes[2].Path = Path(<<Lu, Pn>>)
    /\ InsertAll(NewTrie, Reordered(routes, <<2, 1>>), 1) # trie
    /\ reqs["c1"].pc = "done"
    /\ reqs["c1"].Method = "GET"
    /\ reqs["c1"].handled.Handler = routes[1].Handler
    /\ reqs["c1"].paramValues = <<Lv>>

\* the number of literal children on the way that Insert made in the trie for
\* the segments segs, from node on
RECURSIVE StaticSteps(_, _, _)
StaticSteps(t, node, segs) ==
    IF segs = <<>> THEN 0
    ELSE IF Head(segs) \in DOMAIN t[node].staticChildren
    THEN 1 + StaticSteps(t, t[node].staticChildren[Head(segs)], Tail(segs))
    ELSE StaticSteps(t, t[node].paramChild, Tail(segs))

\* C26: for every route, LiteralCount is the number of segments that Insert
\* stored as literal children, and every segment is either counted by
\* LiteralCount or named by ParamNames, never neither and never both.
C26_AsStated ==
    phase = "serving" =>
        \A ri \in 1..Len(routes) :
            LET p == routes[ri].Pattern
            IN  /\ LiteralCount(p) = StaticSteps(trie, 1, p.segments)
                /\ LiteralCount(p) + Len(ParamNames(p)) = Len(p.segments)

\* the user that a request authenticates, "" without a valid token
Authenticated(s) ==
    IF reqs[s].r.Header = "Bearer good" THEN ValidateJWT("good") ELSE ""

\* C27: on a route whose chain is AuthMiddleware followed by the ownership
\* middleware, the handler is invoked if and only if the request carries a
\* valid token and its user owns the project named by the parameter {id} of
\* the route.
C27_AsStated ==
    \A s \in Slots :
        (/\ reqs[s].pc = "done"
         /\ reqs[s].matched # 0
         /\ routes[reqs[s].matched].Middleware = <<"auth", "owner">>)
        => (reqs[s].handled.Handler # 0
               <=> /\ Authenticated(s) # ""
                   /\ ~GetProjectByID(Param(reqs[s].c, <<"i", "d">>)).err
                   /\ GetProjectByID(Param(reqs[s].c, <<"i", "d">>)).OwnerID
                          = Authenticated(s))

\* C28: every middleware passed to Use before Serve runs on every request,
\* matched or not, before the middleware of the groups and of the route, in
\* the order of the Use calls, whether Use came before or after WithMux.
C28_AsStated ==
    \A s \in Slots :
        reqs[s].pc # "idle" =>
            /\ Len(reqs[s].executionOrder) >= Len(app.GlobalMiddleware)
            /\ SubSeq(reqs[s].executionOrder, 1, Len(app.GlobalMiddleware))
                   = app.GlobalMiddleware

\* the global middleware that WithMux wrapped run on every request, matched
\* or not, before the chain of the route, in the order of the Use calls
GlobalBeforeWithMux ==
    \A s \in Slots :
        reqs[s].pc # "idle" =>
            /\ Len(reqs[s].executionOrder) >= Len(app.Mux.wrapped)
            /\ SubSeq(reqs[s].executionOrder, 1, Len(app.Mux.wrapped))
                   = app.Mux.wrapped
            /\ app.Mux.wrapped
                   = SubSeq(app.GlobalMiddleware, 1, Len(app.Mux.wrapped))

====
